---------------------------- MODULE Spec2Model ----------------------------
(***************************************************************************)
(* Layout core of the chart builders: graph lane assignment (flow),        *)
(* Sankey flow layout, squarified treemap, radial partition (sunburst)     *)
(* and the funnel widths.  Each component is a state machine of its own    *)
(* (SpecFlow, SpecSankey, SpecTreemap, SpecSunburst, SpecFunnel); the      *)
(* variables of the other components stay at their initial values.         *)
(*                                                                         *)
(* Numbers.  The Python code computes with floats.  Here a number is an    *)
(* exact rational <<n, d>> in lowest terms with d > 0, so every equality   *)
(* below is an equality of real numbers: floating-point rounding is not    *)
(* modelled.  Angles are kept in degrees (a radian value r stands as       *)
(* r * 180 / pi).                                                          *)
(***************************************************************************)
EXTENDS Integers, Sequences, FiniteSets, TLC

VARIABLES
    \* flow: _auto_lanes and the placement and routing of build
    f_nodes, f_edges, f_override, f_lane, f_pass, f_idx, f_changed, f_pc,
    f_types, f_coords, f_e, f_routes,
    \* sankey: build
    s_nodes, s_links, s_pad, s_out_sums, s_in_sums, s_scale, s_layout,
    s_out_offset, s_in_offset, s_i, s_ribbons, s_pc,
    \* treemap: _squarify
    t_values, t_rect, t_padding, t_vals, t_rects, t_row, t_i, t_cur, t_horizontal, t_iter, t_rows,
    t_test, t_lay, t_pc,
    \* sunburst: _layout
    u_parent, u_value, u_max_depth, u_gap, u_inner, u_alloc, u_stack, u_slices, u_pc,
    \* funnel: build
    n_values, n_normalize, n_widths, n_ys, n_pc

f_vars == <<f_nodes, f_edges, f_override, f_lane, f_pass, f_idx, f_changed, f_pc,
            f_types, f_coords, f_e, f_routes>>

s_vars == <<s_nodes, s_links, s_pad, s_out_sums, s_in_sums, s_scale, s_layout,
            s_out_offset, s_in_offset, s_i, s_ribbons, s_pc>>

t_vars == <<t_values, t_rect, t_padding, t_vals, t_rects, t_row, t_i, t_cur,
            t_horizontal, t_iter, t_rows, t_test, t_lay, t_pc>>

u_vars == <<u_parent, u_value, u_max_depth, u_gap, u_inner, u_alloc, u_stack, u_slices, u_pc>>

n_vars == <<n_values, n_normalize, n_widths, n_ys, n_pc>>

vars == <<f_vars, s_vars, t_vars, u_vars, n_vars>>

\* what an action of one component leaves alone
FlowOthers == <<s_vars, t_vars, u_vars, n_vars>>
SankeyOthers == <<f_vars, t_vars, u_vars, n_vars>>
TreemapOthers == <<f_vars, s_vars, u_vars, n_vars>>
SunburstOthers == <<f_vars, s_vars, t_vars, n_vars>>
FunnelOthers == <<f_vars, s_vars, t_vars, u_vars>>

-----------------------------------------------------------------------------
(* Exact rational arithmetic standing for the float arithmetic of the code *)

Abs(x) == IF x < 0 THEN -x ELSE x

RECURSIVE GCD(_, _)
GCD(a, b) == IF b = 0 THEN a ELSE GCD(b, a % b)

Rat(n, d) ==
    IF n = 0 /\ d = 0 THEN <<0, 0>>
    ELSE LET g == GCD(Abs(n), Abs(d))
             s == IF d < 0 THEN -1 ELSE 1
         IN  <<(s * n) \div g, (s * d) \div g>>

RInt(n) == <<n, 1>>

\* The non-finite floats: <<1, 0>> is inf, <<-1, 0>> is -inf and <<0, 0>> is
\* nan.  Float division by zero does not raise in numpy; the operators
\* below follow IEEE 754 on these values (the sign of a zero is not kept).
RInf == <<1, 0>>
RNaN == <<0, 0>>
RNeg(a) == <<-a[1], a[2]>>

\* common factors are cancelled before multiplying, so that intermediate
\* products stay small; the values are the same as the textbook formulas
CoDiv(m, n) == LET g == GCD(Abs(m), Abs(n)) IN IF g = 0 THEN 1 ELSE g
RAdd(a, b) ==
    IF a = RNaN \/ b = RNaN THEN RNaN
    ELSE IF a[2] = 0 /\ b[2] = 0 THEN (IF a = b THEN a ELSE RNaN)
    ELSE IF a[2] = 0 THEN a
    ELSE IF b[2] = 0 THEN b
    ELSE LET g == CoDiv(a[2], b[2])
         IN  Rat(a[1] * (b[2] \div g) + b[1] * (a[2] \div g), (a[2] \div g) * b[2])
RSub(a, b) == RAdd(a, RNeg(b))
RMul(a, b) ==
    LET g == CoDiv(a[1], b[2])
        h == CoDiv(b[1], a[2])
    IN  Rat((a[1] \div g) * (b[1] \div h), (a[2] \div h) * (b[2] \div g))
RDiv(a, b) ==
    LET g == CoDiv(a[1], b[1])
        h == CoDiv(a[2], b[2])
        sb == IF b[1] < 0 THEN -1 ELSE 1
    IN  Rat(sb * (a[1] \div g) * (b[2] \div h), sb * (a[2] \div h) * (b[1] \div g))
RLt(a, b) ==
    IF a = RNaN \/ b = RNaN THEN FALSE
    ELSE IF a[2] = 0 /\ b[2] = 0 THEN a[1] < b[1]
    ELSE LET g == CoDiv(a[2], b[2])
         IN  a[1] * (b[2] \div g) < b[1] * (a[2] \div g)
RLe(a, b) ==
    IF a = RNaN \/ b = RNaN THEN FALSE
    ELSE IF a[2] = 0 /\ b[2] = 0 THEN a[1] <= b[1]
    ELSE LET g == CoDiv(a[2], b[2])
         IN  a[1] * (b[2] \div g) <= b[1] * (a[2] \div g)
\* Python's max(a, b) and min(a, b): the first argument unless the second
\* is strictly greater (smaller)
RMax(a, b) == IF RLt(a, b) THEN b ELSE a
RMin(a, b) == IF RLt(b, a) THEN b ELSE a
RZero == RInt(0)

RECURSIVE RSumSeq(_)
RSumSeq(s) == IF s = <<>> THEN RZero ELSE RAdd(RSumSeq(SubSeq(s, 1, Len(s) - 1)), s[Len(s)])

SeqsUpTo(S, n) == UNION {[1..k -> S] : k \in 0..n}

-----------------------------------------------------------------------------
(* The components at rest, while another component runs *)

FlowIdle ==
    /\ f_nodes = <<>> /\ f_edges = <<>> /\ f_override = <<>> /\ f_lane = <<>>
    /\ f_pass = 0 /\ f_idx = 0 /\ f_changed = FALSE /\ f_pc = "idle"
    /\ f_types = <<>> /\ f_coords = <<>> /\ f_e = 0 /\ f_routes = <<>>

SankeyIdle ==
    /\ s_nodes = <<>> /\ s_links = <<>> /\ s_pad = RZero
    /\ s_out_sums = <<>> /\ s_in_sums = <<>> /\ s_scale = RZero /\ s_layout = <<>>
    /\ s_out_offset = <<>> /\ s_in_offset = <<>> /\ s_i = 0 /\ s_ribbons = <<>>
    /\ s_pc = "idle"

TreemapIdle ==
    /\ t_values = <<>> /\ t_rect = <<>> /\ t_padding = RZero /\ t_vals = <<>>
    /\ t_rects = <<>> /\ t_row = <<>> /\ t_i = 0 /\ t_cur = <<>>
    /\ t_horizontal = TRUE /\ t_iter = 0 /\ t_rows = <<>>
    /\ t_test = <<>> /\ t_lay = <<>> /\ t_pc = "idle"

SunburstIdle ==
    /\ u_parent = <<>> /\ u_value = <<>> /\ u_max_depth = 0 /\ u_gap = RZero
    /\ u_inner = <<>> /\ u_alloc = <<>> /\ u_stack = <<>> /\ u_slices = <<>>
    /\ u_pc = "idle"

FunnelIdle ==
    /\ n_values = <<>> /\ n_normalize = TRUE /\ n_widths = <<>> /\ n_ys = <<>>
    /\ n_pc = "idle"

-----------------------------------------------------------------------------
(* Graph auto-layout: _auto_lanes (src/scripts/flow/builder.py)            *)
(* Node ids are the positions 1..n of the node list; the edge list ranges  *)
(* over every list of id pairs, so every relative order of nodes and edges *)
(* occurs up to renaming of the ids.                                       *)

FlowMaxNodes == 3
FlowMaxEdges == 2
\* the lanes an override pins: an overridden node is the first or the last
\* of the visit order
OverrideLanes == {0, 2}
\* one pass fewer than range(12)
PassCap_OneLess == 12 - 1
PassCap == 12
\* the node types given to the nodes, by position
FlowTypeCycle == <<"process", "start", "decision", "end", "process">>
\* the long graphs drawn beside the small ones: a chain of n nodes listed
\* sink first, so that a pass carries a lane one node further; its longest
\* path has n - 1 edges (12 and 13)
FlowChainLens == {13, 14}
\* margin, lane_spacing_px, row_spacing_px, height and the detour of a
\* backward route, in px
FlowMargin == 40
LaneGap == 240
RowGap == 120
FlowHeight == 640
DetourPx == 60
\* lane_spacing_px: the default, and a spacing between the widths of the
\* node shapes
LaneGaps == {LaneGap, 130}

\* preds[id]: the sources of the edges into id, in edge order (lines 11-13)
Preds(edges, id) ==
    LET into == SelectSeq(edges, LAMBDA e : e[2] = id)
    IN  [k \in 1..Len(into) |-> into[k][1]]

MaxOf(S) == CHOOSE m \in S : \A x \in S : x <= m

\* m = max(lane[p] for p in preds[id]) (line 20)
MaxPredLane(lane, edges, id) ==
    LET ps == Preds(edges, id) IN MaxOf({lane[ps[k]] : k \in 1..Len(ps)})

\* the initial lane map (line 14)
InitLane(nodes, override) ==
    [id \in {nodes[k] : k \in 1..Len(nodes)} |->
        IF id \in DOMAIN override THEN override[id] ELSE 0]

\* whether the visit of node id raises its lane: lines 18-21, with `<` for `<=`
RaisesLane_Strict(lane, edges, override, id) ==
    /\ id \notin DOMAIN override
    /\ Preds(edges, id) # <<>>
    /\ lane[id] < MaxPredLane(lane, edges, id)

\* the visit of lines 18-21 without the `continue` for overridden nodes
RaisesLane_NoSkip(lane, edges, override, id) ==
    /\ Preds(edges, id) # <<>>
    /\ lane[id] <= MaxPredLane(lane, edges, id)

\* whether the visit of node id raises its lane (lines 18-21)
RaisesLane(lane, edges, override, id) ==
    /\ id \notin DOMAIN override
    /\ Preds(edges, id) # <<>>
    /\ lane[id] <= MaxPredLane(lane, edges, id)

FlowInit ==
    /\ \/ \E n \in 1..FlowMaxNodes :
             /\ f_nodes = [k \in 1..n |-> k]
             /\ f_edges \in SeqsUpTo((1..n) \X (1..n), FlowMaxEdges)
             /\ \E S \in {{}, {1}, {n}} : f_override \in [S -> OverrideLanes]
       \/ \E n \in FlowChainLens :
             /\ f_nodes = [k \in 1..n |-> k]
             /\ f_edges = [k \in 1..(n - 1) |-> <<k + 1, k>>]
             /\ f_override = <<>>
    /\ f_types = [k \in 1..Len(f_nodes) |-> FlowTypeCycle[((k - 1) % Len(FlowTypeCycle)) + 1]]
    /\ f_coords = <<>> /\ f_e = 0 /\ f_routes = <<>>
    /\ f_lane = InitLane(f_nodes, f_override)
    /\ f_pass = 1
    /\ f_idx = 1
    /\ f_changed = FALSE
    /\ f_pc = "pass"
    /\ SankeyIdle /\ TreemapIdle /\ SunburstIdle /\ FunnelIdle


\* one iteration of `for n in nodes` (lines 17-22)
FlowVisit ==
    /\ f_pc = "pass"
    /\ f_idx <= Len(f_nodes)
    /\ LET id == f_nodes[f_idx] IN
         IF RaisesLane(f_lane, f_edges, f_override, id)
         THEN /\ f_lane' = [f_lane EXCEPT ![id] = MaxPredLane(f_lane, f_edges, id) + 1]
              /\ f_changed' = TRUE
         ELSE UNCHANGED <<f_lane, f_changed>>
    /\ f_idx' = f_idx + 1
    /\ UNCHANGED <<f_nodes, f_edges, f_override, f_pass, f_pc, f_types, f_coords, f_e, f_routes>>
    /\ UNCHANGED FlowOthers

\* the loop ending only with its 12th pass, without the break
LoopEnds_NoBreak(changed, pass) == pass = PassCap

\* the loop is left after a pass: `if not changed: break` (line 23), or the
\* pass was the last of range(12) (line 15)
LoopEnds(changed, pass) == ~changed \/ pass = PassCap

\* end of a pass: `if not changed: break`, else the next of the 12 passes
\* (lines 15-16, 23-24)
FlowEndPass ==
    /\ f_pc = "pass"
    /\ f_idx > Len(f_nodes)
    /\ IF LoopEnds(f_changed, f_pass)
       THEN /\ f_pc' = "done"
            /\ UNCHANGED <<f_pass, f_idx, f_changed>>
       ELSE /\ f_pass' = f_pass + 1
            /\ f_idx' = 1
            /\ f_changed' = FALSE
            /\ f_pc' = "pass"
    /\ UNCHANGED <<f_nodes, f_edges, f_override, f_lane, f_types, f_coords, f_e, f_routes>>
    /\ UNCHANGED FlowOthers

\* the shape drawn for a node type (type_styles, lines 78-83, 120)
ShapeOf(type) ==
    CASE type \in {"start", "end"} -> "ellipse"
      [] type = "decision" -> "diamond"
      [] OTHER -> "roundrect"

\* bbox(nid)[0]: the width of the node's shape (lines 86, 118-124)
BoxWidth(type) ==
    CASE ShapeOf(type) = "ellipse" -> 120
      [] ShapeOf(type) = "diamond" -> 130
      [] OTHER -> 140

\* the position of node k among the nodes of its lane, in node order
\* (by_lane, lines 91-93)
RowOf(nodes, lane, k) == Cardinality({j \in 1..(k - 1) : lane[nodes[j]] = lane[nodes[k]]})

\* coords[id] = [margin + ln*lane_gap, y], y stepping by row_gap from
\* margin + height*0.1 within a lane (lines 96-102)
Coords(nodes, lane, lane_gap) ==
    [k \in 1..Len(nodes) |->
        <<FlowMargin + lane[nodes[k]] * lane_gap,
          FlowMargin + (FlowHeight \div 10) + RowOf(nodes, lane, k) * RowGap>>]

\* backward with `<` for `<=`
Backward_Strict(lane, e) == lane[e[2]] < lane[e[1]]

\* backward = lanes[e["to"]] <= lanes[e["from"]] (line 128)
Backward(lane, e) == lane[e[2]] <= lane[e[1]]

\* (sx, sy) and (tx, ty): the anchors of an edge (lines 116, 125-127)
SourceAnchor(coords, types, e) ==
    <<RAdd(RInt(coords[e[1]][1]), Rat(BoxWidth(types[e[1]]), 2)), RInt(coords[e[1]][2])>>
TargetAnchor(coords, types, e) ==
    <<RSub(RInt(coords[e[2]][1]), Rat(BoxWidth(types[e[2]]), 2)), RInt(coords[e[2]][2])>>

\* _route_polyline(x0, y0, x1, y1, backward) (lines 26-37)
RoutePolyline(x0, y0, x1, y1, backward) ==
    IF ~backward
    THEN LET mid == RDiv(RAdd(x0, x1), RInt(2))
         IN  <<<<x0, y0>>, <<mid, y0>>, <<mid, y1>>, <<x1, y1>>>>
    ELSE LET up == RAdd(RMax(y0, y1), RInt(DetourPx))
             left == RSub(RMin(x0, x1), RInt(DetourPx))
         IN  <<<<x0, y0>>, <<x0, up>>, <<left, up>>, <<left, y1>>, <<x1, y1>>>>

\* the nodes are placed lane by lane (build lines 90-102), lane_gap lanes
\* apart: the option lane_spacing_px, which _auto_lanes has no use for
FlowPlace ==
    /\ f_pc = "done"
    /\ \E lane_gap \in LaneGaps : f_coords' = Coords(f_nodes, f_lane, lane_gap)
    /\ f_e' = 1
    /\ f_pc' = "edges"
    /\ UNCHANGED <<f_nodes, f_edges, f_override, f_lane, f_pass, f_idx, f_changed,
                   f_types, f_routes>>
    /\ UNCHANGED FlowOthers

\* one iteration of `for e in edges`: the edge is routed and drawn
\* (lines 115-133)
FlowRoute ==
    /\ f_pc = "edges"
    /\ f_e <= Len(f_edges)
    /\ LET e == f_edges[f_e]
           s == SourceAnchor(f_coords, f_types, e)
           t == TargetAnchor(f_coords, f_types, e)
       IN  f_routes' = Append(f_routes,
               RoutePolyline(s[1], s[2], t[1], t[2], Backward(f_lane, e)))
    /\ f_e' = f_e + 1
    /\ UNCHANGED <<f_nodes, f_edges, f_override, f_lane, f_pass, f_idx, f_changed, f_pc,
                   f_types, f_coords>>
    /\ UNCHANGED FlowOthers

\* every edge routed: the nodes are drawn and the figure saved (lines 135-155)
FlowDraw ==
    /\ f_pc = "edges"
    /\ f_e > Len(f_edges)
    /\ f_pc' = "drawn"
    /\ UNCHANGED <<f_nodes, f_edges, f_override, f_lane, f_pass, f_idx, f_changed,
                   f_types, f_coords, f_e, f_routes>>
    /\ UNCHANGED FlowOthers

FlowNext == FlowVisit \/ FlowEndPass \/ FlowPlace \/ FlowRoute \/ FlowDraw

SpecFlow == FlowInit /\ [][FlowNext]_vars

\* _auto_lanes is a plain sequential loop: a step of it that can be taken
\* is taken
SpecFlowFair == SpecFlow /\ WF_vars(FlowVisit) /\ WF_vars(FlowEndPass)

(* ---- claims about _auto_lanes ---- *)

FlowEdgeIdx == 1..Len(f_edges)

\* the nodes reachable from the set S along edges (zero or more steps)
RECURSIVE ReachFrom(_, _)
ReachFrom(edges, S) ==
    LET T == S \cup {edges[k][2] : k \in {j \in 1..Len(edges) : edges[j][1] \in S}}
    IN  IF T = S THEN S ELSE ReachFrom(edges, T)

\* edge (u -> v) lies on a directed cycle: v reaches u
OnCycle(edges, k) == edges[k][1] \in ReachFrom(edges, {edges[k][2]})

\* C1 as stated: after _auto_lanes returns, every edge (u -> v) whose target
\* has no override and which lies on no directed cycle has lane(v) > lane(u).
C1_AsStated ==
    f_pc = "done" =>
        \A k \in FlowEdgeIdx :
            (f_edges[k][2] \notin DOMAIN f_override /\ ~OnCycle(f_edges, k))
                => f_lane[f_edges[k][2]] > f_lane[f_edges[k][1]]

\* C1 (amended): when _auto_lanes returns after a pass that changed no lane,
\* every edge (u -> v) whose target v has no override has lane(v) > lane(u).
C1_FixedPointLayered ==
    (f_pc = "done" /\ ~f_changed) =>
        \A k \in FlowEdgeIdx :
            f_edges[k][2] \notin DOMAIN f_override
                => f_lane[f_edges[k][2]] > f_lane[f_edges[k][1]]

\* a returned fixed point in which a lane was raised above an overridden
\* predecessor and above a raised predecessor
C1_Witness ==
    /\ f_pc = "done" /\ ~f_changed /\ f_pass = 3
    /\ \E k \in FlowEdgeIdx :
          /\ f_edges[k][2] \notin DOMAIN f_override
          /\ f_lane[f_edges[k][1]] >= 1
          /\ f_lane[f_edges[k][2]] > f_lane[f_edges[k][1]]

FlowIds == {f_nodes[k] : k \in 1..Len(f_nodes)}

\* C16: at the start of the pass loop every node without a lane override is
\* at lane 0, and in every state of the pass loop and in the result the lane
\* of every overridden node is its override value, whatever the lanes of
\* its predecessors are.
C16_OverridesKept ==
    f_pc \in {"pass", "done"} =>
        /\ (f_pass = 1 /\ f_idx = 1) =>
              \A id \in FlowIds \ DOMAIN f_override : f_lane[id] = 0
        /\ \A id \in FlowIds \cap DOMAIN f_override : f_lane[id] = f_override[id]

\* a result in which an overridden node has a predecessor that was raised
\* to a lane not below the node's own
C16_Witness ==
    /\ f_pc = "done"
    /\ \E k \in FlowEdgeIdx :
          /\ f_edges[k][2] \in DOMAIN f_override
          /\ f_edges[k][1] \notin DOMAIN f_override
          /\ f_lane[f_edges[k][1]] >= 1
          /\ f_lane[f_edges[k][1]] >= f_lane[f_edges[k][2]]

\* at most 12 passes, and the function has returned only after a pass that
\* changed no lane or after the 12th pass
C17_PassBound ==
    /\ f_pc \in {"pass", "done"} => f_pass \in 1..PassCap
    /\ f_pc = "done" => (f_idx > Len(f_nodes) /\ (~f_changed \/ f_pass = PassCap))

\* a step of the loop: a pass that changed no lane is followed by the
\* return, and the return hands back the lanes as they are
C17_Step ==
    /\ (f_pc = "pass" /\ f_idx > Len(f_nodes) /\ ~f_changed) => f_pc' = "done"
    /\ f_pc' = "done" => f_lane' = f_lane

\* C17: _auto_lanes terminates on every graph, cycles and self-loops
\* included: it makes at most 12 passes over the node list, stops as soon as
\* one pass changes no lane, and returns the lanes present at that moment.
C17_Terminates ==
    /\ []C17_PassBound
    /\ [][C17_Step]_vars
    /\ <>(f_pc = "done")

\* a return forced by the cap: the 12th pass still changed a lane
C17_Witness ==
    /\ f_pc = "done" /\ f_pass = PassCap /\ f_changed
    /\ \E k \in FlowEdgeIdx : f_edges[k][1] = f_edges[k][2]

\* consecutive points of a path differ in one coordinate at most
AxisParallel(pts) ==
    \A k \in 1..(Len(pts) - 1) : pts[k][1] = pts[k + 1][1] \/ pts[k][2] = pts[k + 1][2]

Acyclic(edges) == \A k \in 1..Len(edges) : ~OnCycle(edges, k)

\* the number of edges of the longest directed path ending at id, in an
\* acyclic graph
RECURSIVE LongestPathTo(_, _)
LongestPathTo(edges, id) ==
    LET ps == {edges[k][1] : k \in {j \in 1..Len(edges) : edges[j][2] = id}}
    IN  IF ps = {} THEN 0
        ELSE LET ds == {LongestPathTo(edges, p) : p \in ps}
             IN  1 + (CHOOSE m \in ds : \A d \in ds : d <= m)

\* C23: for an acyclic graph without lane overrides whose longest directed
\* path has at most 12 edges, _auto_lanes returns for every node the number
\* of edges of the longest directed path ending at that node; the value
\* depends on the graph alone, so it is the same for every order of the node
\* list and of the edge list.
C23_LongestPathLayering ==
    (/\ f_pc = "done"
     /\ f_override = <<>>
     /\ Acyclic(f_edges)
     /\ \A id \in FlowIds : LongestPathTo(f_edges, id) <= 12)
        => \A id \in FlowIds : f_lane[id] = LongestPathTo(f_edges, id)

\* the chain of 12 edges listed sink first: its sink reached lane 12 in the
\* 12th pass
C23_Witness ==
    /\ f_pc = "done" /\ f_override = <<>> /\ Acyclic(f_edges)
    /\ Len(f_nodes) = 13 /\ f_pass = 12 /\ f_changed
    /\ f_lane[1] = 12 /\ LongestPathTo(f_edges, 1) = 12

\* C30 as stated: for every routed edge, forward or backward, and for every
\* positive lane spacing, the final segment of the polyline is horizontal,
\* has non-zero length and runs in the +x direction into the target's left
\* boundary.
C30_AsStated ==
    f_pc \in {"edges", "drawn"} =>
        \A k \in 1..Len(f_routes) :
            LET pts == f_routes[k]
                prev == pts[Len(pts) - 1]
                end == pts[Len(pts)]
            IN  /\ prev[2] = end[2]
                /\ RLt(prev[1], end[1])
                /\ end = TargetAnchor(f_coords, f_types, f_edges[k])

-----------------------------------------------------------------------------
(* Sankey flow layout: build (src/scripts/sankey/builder.py) and           *)
(* validate_sankey (src/charts/core/validators.py).  Node ids are the      *)
(* positions of the node list.  A node is [col, label] where label says    *)
(* whether the payload's node carries a "label" key.                       *)

SankeyMaxLinks == 2
SankeyMaxVal == 2
SankeyHeight == 640
SankeyVals == {-1} \cup (1..SankeyMaxVal)
SankeyPads == {RInt(0), RInt(6)}
\* column of each node of the payloads drawn
SankeyShapes == {<<0, 1>>, <<0, 1, 1>>, <<0, 1, 2>>, <<1, 0, 0>>}
\* the nodes that may come without a "label" key
SankeyUnlabelled == {{}, {1}}

\* usable_h_px = height * 0.85 (line 69)
UsableH == Rat(SankeyHeight * 85, 100)

AdjacentPairs(cols) ==
    {p \in (1..Len(cols)) \X (1..Len(cols)) : Abs(cols[p[1]] - cols[p[2]]) = 1}

\* the checks of validate_sankey on nodes and links (lines 117-131)
SankeyShapeOk(nodes, links) ==
    /\ nodes # <<>>
    /\ links # <<>>
    /\ \A k \in 1..Len(nodes) : nodes[k].col >= 0
    /\ \A j \in 1..Len(links) :
          /\ links[j].source \in 1..Len(nodes)
          /\ links[j].target \in 1..Len(nodes)
          /\ Abs(nodes[links[j].source].col - nodes[links[j].target].col) = 1

\* sum of float(e["value"]) over the first k links whose `side` is id
RECURSIVE FlowSum(_, _, _, _)
FlowSum(links, side, id, k) ==
    IF k = 0 THEN RZero
    ELSE LET rest == FlowSum(links, side, id, k - 1)
             e == links[k]
             end == IF side = "source" THEN e.source ELSE e.target
         IN  IF end = id THEN RAdd(rest, RInt(e.value)) ELSE rest

\* node_size_units from the inflow alone
NodeSizeUnits_InflowOnly(ins, outs, id) == RMax(ins[id], RZero)

\* node_size_units with min for max
NodeSizeUnits_Min(ins, outs, id) == RMax(RMin(ins[id], outs[id]), RZero)

\* node_size_units[id] = max(in_sums, out_sums, 0.0) (line 65)
NodeSizeUnits(ins, outs, id) == RMax(RMax(ins[id], outs[id]), RZero)

\* sum of node_size_units over the first k nodes that lie in column c
RECURSIVE ColSize(_, _, _, _, _)
ColSize(nodes, ins, outs, c, k) ==
    IF k = 0 THEN RZero
    ELSE LET rest == ColSize(nodes, ins, outs, c, k - 1)
         IN  IF nodes[k].col = c THEN RAdd(rest, NodeSizeUnits(ins, outs, k)) ELSE rest

RMaxOf(S) == CHOOSE m \in S : \A x \in S : RLe(x, m)

\* global_max = max(max_in_col.values()) (lines 66-67)
GlobalMax(nodes, ins, outs) ==
    RMaxOf({ColSize(nodes, ins, outs, nodes[k].col, Len(nodes)) : k \in 1..Len(nodes)})

\* _stack_positions: the y of node id within its column, before centring
\* (lines 13-19, 94-95); pad is node_pad * 1.5
RECURSIVE StackY(_, _, _, _, _)
StackY(nodes, h, pad, id, k) ==
    IF k = 0 THEN RZero
    ELSE LET rest == StackY(nodes, h, pad, id, k - 1)
         IN  IF nodes[k].col = nodes[id].col /\ k < id
             THEN RAdd(rest, RAdd(h[k], pad)) ELSE rest

LastInCol(nodes, c) == MaxOf({k \in 1..Len(nodes) : nodes[k].col = c})

\* y_offset of a column: (usable_h_px - total) / 2 (lines 97-99)
ColYOffset(nodes, h, pad, c) ==
    LET last == LastInCol(nodes, c)
        total == RAdd(StackY(nodes, h, pad, last, Len(nodes)), h[last])
    IN  RDiv(RSub(UsableH, total), RInt(2))

\* h_px with the value's magnitude instead of the value
LinkThickness_Abs(e, scale) == RMul(RInt(Abs(e.value)), scale)

\* h_px = float(e["value"]) * unit_to_px (line 116)
LinkThickness(e, scale) == RMul(RInt(e.value), scale)

SankeyInit ==
    /\ \E cols \in SankeyShapes, U \in SankeyUnlabelled :
          /\ s_nodes = [k \in 1..Len(cols) |-> [col |-> cols[k], label |-> k \notin U]]
          /\ s_links \in SeqsUpTo(
                 {[source |-> p[1], target |-> p[2], value |-> v] :
                      p \in AdjacentPairs(cols), v \in SankeyVals}, SankeyMaxLinks)
    /\ s_pad \in SankeyPads
    /\ s_out_sums = <<>> /\ s_in_sums = <<>> /\ s_scale = RZero /\ s_layout = <<>>
    /\ s_out_offset = <<>> /\ s_in_offset = <<>> /\ s_i = 0 /\ s_ribbons = <<>>
    /\ s_pc = "validate"
    /\ FlowIdle /\ TreemapIdle /\ SunburstIdle /\ FunnelIdle

\* validate_sankey(payload) (build line 35; validators lines 116-131): the
\* node loop gives every node a "label" before the links are looked at
SankeyValidate ==
    /\ s_pc = "validate"
    /\ IF s_nodes = <<>> \/ s_links = <<>>
       THEN s_nodes' = s_nodes
       ELSE s_nodes' = [k \in 1..Len(s_nodes) |-> [s_nodes[k] EXCEPT !.label = TRUE]]
    /\ s_pc' = IF SankeyShapeOk(s_nodes, s_links) THEN "sums" ELSE "error"
    /\ UNCHANGED <<s_links, s_pad, s_out_sums, s_in_sums, s_scale, s_layout,
                   s_out_offset, s_in_offset, s_i, s_ribbons>>
    /\ UNCHANGED SankeyOthers

\* sum flows per node (lines 58-63)
SankeySums ==
    /\ s_pc = "sums"
    /\ s_out_sums' = [id \in 1..Len(s_nodes) |-> FlowSum(s_links, "source", id, Len(s_links))]
    /\ s_in_sums' = [id \in 1..Len(s_nodes) |-> FlowSum(s_links, "target", id, Len(s_links))]
    /\ s_pc' = "scale"
    /\ UNCHANGED <<s_nodes, s_links, s_pad, s_scale, s_layout,
                   s_out_offset, s_in_offset, s_i, s_ribbons>>
    /\ UNCHANGED SankeyOthers

\* unit_to_px = usable_h_px / global_max (lines 65-70); the division raises
\* ZeroDivisionError when no node has a positive size
SankeyScale ==
    /\ s_pc = "scale"
    /\ LET gm == GlobalMax(s_nodes, s_in_sums, s_out_sums) IN
         IF gm = RZero
         THEN /\ s_pc' = "error"
              /\ UNCHANGED s_scale
         ELSE /\ s_scale' = RDiv(UsableH, gm)
              /\ s_pc' = "layout"
    /\ UNCHANGED <<s_nodes, s_links, s_pad, s_out_sums, s_in_sums, s_layout,
                   s_out_offset, s_in_offset, s_i, s_ribbons>>
    /\ UNCHANGED SankeyOthers

\* node layout and the zeroed offsets (lines 90-108)
SankeyNodeLayout ==
    /\ s_pc = "layout"
    /\ LET ids == 1..Len(s_nodes)
           h == [id \in ids |-> RMul(NodeSizeUnits(s_in_sums, s_out_sums, id), s_scale)]
           pad == RMul(s_pad, Rat(3, 2))
       IN  s_layout' = [id \in ids |->
                [y0 |-> RAdd(StackY(s_nodes, h, pad, id, Len(s_nodes)),
                             ColYOffset(s_nodes, h, pad, s_nodes[id].col)),
                 h |-> h[id]]]
    /\ s_out_offset' = [id \in 1..Len(s_nodes) |-> RZero]
    /\ s_in_offset' = [id \in 1..Len(s_nodes) |-> RZero]
    /\ s_i' = 1
    /\ s_pc' = "links"
    /\ UNCHANGED <<s_nodes, s_links, s_pad, s_out_sums, s_in_sums, s_scale, s_ribbons>>
    /\ UNCHANGED SankeyOthers

\* one iteration of the link loop (lines 111-126)
SankeyLink ==
    /\ s_pc = "links"
    /\ s_i <= Len(s_links)
    /\ LET e == s_links[s_i]
           h_px == LinkThickness(e, s_scale)
           y0 == RAdd(s_layout[e.source].y0, s_out_offset[e.source])
           y1 == RAdd(s_layout[e.target].y0, s_in_offset[e.target])
       IN  /\ s_ribbons' = Append(s_ribbons,
                 [source |-> e.source, target |-> e.target, y0 |-> y0, y1 |-> y1, w |-> h_px])
           /\ s_out_offset' = [s_out_offset EXCEPT ![e.source] = RAdd(@, h_px)]
           /\ s_in_offset' = [s_in_offset EXCEPT ![e.target] = RAdd(@, h_px)]
    /\ s_i' = s_i + 1
    /\ UNCHANGED <<s_nodes, s_links, s_pad, s_out_sums, s_in_sums, s_scale, s_layout, s_pc>>
    /\ UNCHANGED SankeyOthers

\* every link processed: the nodes are drawn and the figure saved (lines 128-151)
SankeyFinish ==
    /\ s_pc = "links"
    /\ s_i > Len(s_links)
    /\ s_pc' = "done"
    /\ UNCHANGED <<s_nodes, s_links, s_pad, s_out_sums, s_in_sums, s_scale, s_layout,
                   s_out_offset, s_in_offset, s_i, s_ribbons>>
    /\ UNCHANGED SankeyOthers

SankeyNext ==
    \/ SankeyValidate \/ SankeySums \/ SankeyScale
    \/ SankeyNodeLayout \/ SankeyLink \/ SankeyFinish

SpecSankey == SankeyInit /\ [][SankeyNext]_vars



(* ---- claims about the Sankey layout ---- *)

SankeyIds == 1..Len(s_nodes)

\* sum of the thicknesses of the ribbons whose `side` is id
RECURSIVE RibbonSum(_, _, _, _)
RibbonSum(ribbons, side, id, k) ==
    IF k = 0 THEN RZero
    ELSE LET rest == RibbonSum(ribbons, side, id, k - 1)
             end == IF side = "source" THEN ribbons[k].source ELSE ribbons[k].target
         IN  IF end = id THEN RAdd(rest, ribbons[k].w) ELSE rest

\* C2: once every link has been processed, for every node the thicknesses of
\* the ribbons leaving it sum to its total outflow times the global scale and
\* to its final output offset, and those of the ribbons entering it sum to
\* its total inflow times the scale and to its final input offset.
C2_FlowConservation ==
    s_pc = "done" =>
        \A id \in SankeyIds :
            /\ RibbonSum(s_ribbons, "source", id, Len(s_ribbons)) = RMul(s_out_sums[id], s_scale)
            /\ RibbonSum(s_ribbons, "source", id, Len(s_ribbons)) = s_out_offset[id]
            /\ RibbonSum(s_ribbons, "target", id, Len(s_ribbons)) = RMul(s_in_sums[id], s_scale)
            /\ RibbonSum(s_ribbons, "target", id, Len(s_ribbons)) = s_in_offset[id]

\* a finished layout with a node that two ribbons of different thickness leave
C2_Witness ==
    /\ s_pc = "done"
    /\ \E a, b \in 1..Len(s_ribbons) :
          /\ a < b
          /\ s_ribbons[a].source = s_ribbons[b].source
          /\ s_ribbons[a].w # s_ribbons[b].w
          /\ RLt(RZero, s_out_sums[s_ribbons[a].source])

AllLinksPositive == \A j \in 1..Len(s_links) : s_links[j].value > 0

\* the ribbons on one side of node id, in input order, as <<start, thickness>>
SideRibbons(side, id) ==
    LET rs == SelectSeq(s_ribbons,
                  LAMBDA r : IF side = "source" THEN r.source = id ELSE r.target = id)
    IN  [k \in 1..Len(rs) |-> <<IF side = "source" THEN rs[k].y0 ELSE rs[k].y1, rs[k].w>>]

\* the intervals start at lo, each begins where the one before ends, and the
\* last ends at hi
Stacked(iv, lo, hi) ==
    /\ iv # <<>>
    /\ iv[1][1] = lo
    /\ \A k \in 1..(Len(iv) - 1) : iv[k + 1][1] = RAdd(iv[k][1], iv[k][2])
    /\ RAdd(iv[Len(iv)][1], iv[Len(iv)][2]) = hi

\* C3 as stated (for the positive link values of the data model): the
\* ribbons on each side of a node that has links on that side cover exactly
\* the node's extent [y0, y0 + h].
C3_AsStated ==
    (s_pc = "done" /\ AllLinksPositive) =>
        \A id \in SankeyIds : \A side \in {"source", "target"} :
            SideRibbons(side, id) # <<>> =>
                Stacked(SideRibbons(side, id), s_layout[id].y0,
                        RAdd(s_layout[id].y0, s_layout[id].h))

SideTotal(side, id) == IF side = "source" THEN s_out_sums[id] ELSE s_in_sums[id]
OtherTotal(side, id) == IF side = "source" THEN s_in_sums[id] ELSE s_out_sums[id]

\* C3 (amended): with all link values positive, the ribbons on a side of a
\* node that has links there are stacked without gap from the node's top
\* edge y0 and cover [y0, y0 + (that side's total) * scale], which lies
\* inside [y0, y0 + h]; they cover exactly [y0, y0 + h] on the side whose
\* total is not the smaller one.
C3_LargerSideTiles ==
    (s_pc = "done" /\ AllLinksPositive) =>
        \A id \in SankeyIds : \A side \in {"source", "target"} :
            SideRibbons(side, id) # <<>> =>
                LET px == RMul(SideTotal(side, id), s_scale) IN
                /\ Stacked(SideRibbons(side, id), s_layout[id].y0, RAdd(s_layout[id].y0, px))
                /\ RLe(px, s_layout[id].h)
                /\ RLe(OtherTotal(side, id), SideTotal(side, id)) => px = s_layout[id].h

\* a finished layout with a node whose outflow exceeds its positive inflow
C3_Witness ==
    /\ s_pc = "done" /\ AllLinksPositive
    /\ \E id \in SankeyIds :
          /\ RLt(RZero, s_in_sums[id])
          /\ RLt(s_in_sums[id], s_out_sums[id])
          /\ SideRibbons("source", id) # <<>>
          /\ SideRibbons("target", id) # <<>>

\* the vertical extent a ribbon of thickness w starting at y covers
RibbonLo(y, w) == RMin(y, RAdd(y, w))
RibbonHi(y, w) == RMax(y, RAdd(y, w))

\* the ribbons a and b, starting at ya and yb, share no area at the node
RibbonsApart(ya, wa, yb, wb) ==
    \/ RLe(RibbonHi(ya, wa), RibbonLo(yb, wb))
    \/ RLe(RibbonHi(yb, wb), RibbonLo(ya, wa))

\* ribbon k is the ribbon of link k, and starts at each end at the node's
\* top edge plus the thicknesses of the earlier links at that end
RibbonInInputOrder(k) ==
    LET r == s_ribbons[k] IN
    /\ r.source = s_links[k].source /\ r.target = s_links[k].target
    /\ r.w = RMul(RInt(s_links[k].value), s_scale)
    /\ r.y0 = RAdd(s_layout[r.source].y0, RibbonSum(s_ribbons, "source", r.source, k - 1))
    /\ r.y1 = RAdd(s_layout[r.target].y0, RibbonSum(s_ribbons, "target", r.target, k - 1))

\* C12: links are consumed in input order; every ribbon starts at its
\* source's top edge plus the thicknesses of the earlier links of that
\* source and ends at its target's top edge plus those of the earlier links
\* of that target, so the ribbons on one side of a node are stacked in input
\* order without gap and without overlap.
C12_AsStated ==
    s_pc \in {"links", "done"} =>
        /\ Len(s_ribbons) = s_i - 1
        /\ \A k \in 1..Len(s_ribbons) : RibbonInInputOrder(k)
        /\ \A a, b \in 1..Len(s_ribbons) :
              a < b =>
                /\ s_ribbons[a].source = s_ribbons[b].source =>
                      RibbonsApart(s_ribbons[a].y0, s_ribbons[a].w,
                                   s_ribbons[b].y0, s_ribbons[b].w)
                /\ s_ribbons[a].target = s_ribbons[b].target =>
                      RibbonsApart(s_ribbons[a].y1, s_ribbons[a].w,
                                   s_ribbons[b].y1, s_ribbons[b].w)

\* C25: while the links are processed, with all link values positive, every
\* ribbon stays inside the vertical extent of both of its nodes: the output
\* offset of the source plus the ribbon's thickness is at most the source's
\* height, and the input offset of the target plus the thickness is at most
\* the target's height (the offsets being those the ribbon was placed at).
C25_RibbonsInsideNodes ==
    (s_pc \in {"links", "done"} /\ AllLinksPositive) =>
        /\ \A k \in 1..Len(s_ribbons) :
              LET r == s_ribbons[k] IN
              /\ r.y0 = RAdd(s_layout[r.source].y0, RibbonSum(s_ribbons, "source", r.source, k - 1))
              /\ r.y1 = RAdd(s_layout[r.target].y0, RibbonSum(s_ribbons, "target", r.target, k - 1))
              /\ RLe(RAdd(RibbonSum(s_ribbons, "source", r.source, k - 1), r.w),
                     s_layout[r.source].h)
              /\ RLe(RAdd(RibbonSum(s_ribbons, "target", r.target, k - 1), r.w),
                     s_layout[r.target].h)
        /\ \A id \in SankeyIds :
              /\ RLe(s_out_offset[id], s_layout[id].h)
              /\ RLe(s_in_offset[id], s_layout[id].h)

\* two ribbons of different thickness of one source have been placed, the
\* second below the first and ending exactly at the node's lower edge
C25_Witness ==
    /\ s_pc = "links" /\ AllLinksPositive /\ Len(s_ribbons) = 2
    /\ s_ribbons[1].source = s_ribbons[2].source
    /\ s_ribbons[1].target # s_ribbons[2].target
    /\ s_out_offset[s_ribbons[1].source] = s_layout[s_ribbons[1].source].h
    /\ s_ribbons[1].w # s_ribbons[2].w
    /\ RLt(s_ribbons[1].y0, s_ribbons[2].y0)

\* C28 as stated (for positive link values): every node box lies inside the
\* usable vertical extent [0, usable_h], for every column, every number of
\* nodes per column and every node padding >= 0.
C28_AsStated ==
    (s_pc \in {"links", "done"} /\ AllLinksPositive) =>
        \A id \in SankeyIds :
            /\ RLe(RZero, s_layout[id].y0)
            /\ RLe(RAdd(s_layout[id].y0, s_layout[id].h), UsableH)

-----------------------------------------------------------------------------
(* Squarified treemap: _squarify (src/scripts/treemap/builder.py).         *)
(* A rectangle is <<x, y, w, h>>.  The open row holds the positions in     *)
(* vals of the values the code's `row` list holds, and every returned      *)
(* rectangle carries, as `item`, the position of the value it was laid out *)
(* for (the code's tuples are its x, y, w, h).  t_iter counts the          *)
(* iterations of the while loop and t_rows lists the rows handed to        *)
(* layout, in call order; t_lay lists, for the same calls, the arguments   *)
(* horizontal and (x, y, W, H).  t_test holds what the test of line 42     *)
(* computed in the last iteration: the side passed to worst_ratio and the  *)
(* two ratios, or <<>> when the row was empty and nothing was computed.    *)

TreeMaxLen == 4
TreeMaxVal == 3
\* (x, y, w, h) of the containers drawn: build's unit square (line 77), the
\* 6 x 4 container of the spec's scenario, and one away from the origin
TreeContainers == {<<RInt(0), RInt(0), RInt(1), RInt(1)>>,
                   <<RInt(0), RInt(0), RInt(6), RInt(4)>>,
                   <<RInt(1), RInt(2), RInt(2), RInt(3)>>}
\* padding: none, and build's default padding_px / max(width, height) = 6 / 880
TreePaddings == {RInt(0), Rat(6, 880)}
\* value lists drawn beside the short ones: the spec's scenario and a list
\* with one dominant item
TreeLongInputs == {<<6, 6, 4, 3, 2, 2, 1>>, <<99, 1>>}

\* Python's max(row) and min(row): a left-to-right scan that keeps the
\* element held unless the next one is strictly greater (smaller)
RECURSIVE SeqMax(_)
SeqMax(rv) ==
    IF Len(rv) = 1 THEN rv[1]
    ELSE RMax(SeqMax(SubSeq(rv, 1, Len(rv) - 1)), rv[Len(rv)])

RECURSIVE SeqMin(_)
SeqMin(rv) ==
    IF Len(rv) = 1 THEN rv[1]
    ELSE RMin(SeqMin(SubSeq(rv, 1, Len(rv) - 1)), rv[Len(rv)])

RSq(a) == RMul(a, a)

\* the values of a row
RowVals(vals, row) == [k \in 1..Len(row) |-> vals[row[k]]]

\* vals = vals / vals.sum() * (w*h), without the factor w*h
Normalized_NoArea(values, rect) ==
    LET total == RSumSeq([k \in 1..Len(values) |-> RInt(values[k])])
    IN  [k \in 1..Len(values) |-> RDiv(RInt(values[k]), total)]

\* vals = vals / vals.sum() * (w*h) (lines 12-13)
Normalized(values, rect) ==
    LET total == RSumSeq([k \in 1..Len(values) |-> RInt(values[k])])
    IN  [k \in 1..Len(values) |->
            RMul(RDiv(RInt(values[k]), total), RMul(rect[3], rect[4]))]

\* worst_ratio with min(row) in the place of max(row)
WorstRatio_SmallestTwice(rv, W) ==
    IF rv = <<>> THEN RInf
    ELSE LET s == RSumSeq(rv)
             n == SeqMin(rv)
         IN  RMax(RDiv(RMul(RSq(W), n), RSq(s)), RDiv(RSq(s), RMul(RSq(W), n)))

\* worst_ratio(row, W) (lines 15-18)
WorstRatio(rv, W) ==
    IF rv = <<>> THEN RInf
    ELSE LET s == RSumSeq(rv)
             m == SeqMax(rv)
             n == SeqMin(rv)
         IN  RMax(RDiv(RMul(RSq(W), m), RSq(s)), RDiv(RSq(s), RMul(RSq(W), n)))

\* what line 42 computes: nothing for an empty row (`not row or` does not
\* evaluate its right side), else the side min(cur_w, cur_h) and the worst
\* ratios of row + [v] and of row against it
Line42(vals, row, i, cur) ==
    IF row = <<>> THEN <<>>
    ELSE LET T == RMin(cur[3], cur[4]) IN
         <<T, WorstRatio(RowVals(vals, Append(row, i)), T), WorstRatio(RowVals(vals, row), T)>>

\* the test of line 42 with `row and` for `not row or`
Accepts_RequiresRow(vals, row, i, cur) ==
    /\ row # <<>>
    /\ LET T == RMin(cur[3], cur[4]) IN
         RLe(WorstRatio(RowVals(vals, Append(row, i)), T), WorstRatio(RowVals(vals, row), T))

\* the test of line 42: the row is empty, or adding vals[i] does not worsen it
Accepts(vals, row, i, cur) ==
    \/ row = <<>>
    \/ LET T == RMin(cur[3], cur[4]) IN
         RLe(WorstRatio(RowVals(vals, Append(row, i)), T), WorstRatio(RowVals(vals, row), T))

\* the rectangles layout appends, last value of the row first
LayoutRects_Reversed(vals, row, cur, horizontal, padding) ==
    LET rv == RowVals(vals, row)
        n == Len(row)
        s == RSumSeq(rv)
        p2 == RMul(RInt(2), padding)
        hh == RDiv(s, cur[3])
        ww == RDiv(s, cur[4])
        rev == [k \in 1..n |-> rv[n + 1 - k]]
    IN  [k \in 1..n |->
            IF horizontal
            THEN [x |-> RAdd(RAdd(cur[1], RDiv(RSumSeq(SubSeq(rev, 1, k - 1)), hh)), padding),
                  y |-> RAdd(cur[2], padding),
                  w |-> RSub(RDiv(rev[k], hh), p2),
                  h |-> RSub(hh, p2),
                  item |-> row[n + 1 - k]]
            ELSE [x |-> RAdd(cur[1], padding),
                  y |-> RAdd(RAdd(cur[2], RDiv(RSumSeq(SubSeq(rev, 1, k - 1)), ww)), padding),
                  w |-> RSub(ww, p2),
                  h |-> RSub(RDiv(rev[k], ww), p2),
                  item |-> row[n + 1 - k]]]

\* the rectangles layout appends for a row, in row order (lines 19-27, 29-35):
\* xx (yy) of the k-th is x (y) plus the widths (heights) of those before it
LayoutRects(vals, row, cur, horizontal, padding) ==
    LET rv == RowVals(vals, row)
        s == RSumSeq(rv)
        p2 == RMul(RInt(2), padding)
        hh == RDiv(s, cur[3])
        ww == RDiv(s, cur[4])
    IN  [k \in 1..Len(row) |->
            IF horizontal
            THEN [x |-> RAdd(RAdd(cur[1], RDiv(RSumSeq(SubSeq(rv, 1, k - 1)), hh)), padding),
                  y |-> RAdd(cur[2], padding),
                  w |-> RSub(RDiv(rv[k], hh), p2),
                  h |-> RSub(hh, p2),
                  item |-> row[k]]
            ELSE [x |-> RAdd(cur[1], padding),
                  y |-> RAdd(RAdd(cur[2], RDiv(RSumSeq(SubSeq(rv, 1, k - 1)), ww)), padding),
                  w |-> RSub(ww, p2),
                  h |-> RSub(RDiv(rv[k], ww), p2),
                  item |-> row[k]]]

\* layout's return value with the origin of the rest not moved
LayoutRest_NoAdvance(vals, row, cur, horizontal) ==
    LET s == RSumSeq(RowVals(vals, row)) IN
    IF horizontal
    THEN <<cur[1], cur[2], cur[3], RSub(cur[4], RDiv(s, cur[3]))>>
    ELSE <<cur[1], cur[2], RSub(cur[3], RDiv(s, cur[4])), cur[4]>>

\* layout's return value with the strip's thickness taken from the side it
\* is cut from (s / H for a horizontal strip, s / W for a vertical one)
LayoutRest_ThicknessOfCutSide(vals, row, cur, horizontal) ==
    LET s == RSumSeq(RowVals(vals, row)) IN
    IF horizontal
    THEN <<cur[1], RAdd(cur[2], RDiv(s, cur[4])), cur[3], RSub(cur[4], RDiv(s, cur[4]))>>
    ELSE <<RAdd(cur[1], RDiv(s, cur[3])), cur[2], RSub(cur[3], RDiv(s, cur[3])), cur[4]>>

\* layout's return value, the rest of the rectangle (lines 28, 36)
LayoutRest(vals, row, cur, horizontal) ==
    LET s == RSumSeq(RowVals(vals, row)) IN
    IF horizontal
    THEN <<cur[1], RAdd(cur[2], RDiv(s, cur[3])), cur[3], RSub(cur[4], RDiv(s, cur[3]))>>
    ELSE <<RAdd(cur[1], RDiv(s, cur[4])), cur[2], RSub(cur[3], RDiv(s, cur[4])), cur[4]>>

TreemapInit ==
    /\ t_values \in UNION {[1..k -> 1..TreeMaxVal] : k \in 1..TreeMaxLen} \cup TreeLongInputs
    /\ t_rect \in TreeContainers
    /\ t_padding \in TreePaddings
    /\ t_vals = <<>> /\ t_rects = <<>> /\ t_row = <<>> /\ t_i = 0 /\ t_cur = <<>>
    /\ t_horizontal = TRUE /\ t_iter = 0 /\ t_rows = <<>>
    /\ t_test = <<>> /\ t_lay = <<>>
    /\ t_pc = "start"
    /\ FlowIdle /\ SankeyIdle /\ SunburstIdle /\ FunnelIdle

\* normalisation and the loop's initial state (lines 12-14, 37-39)
TreemapStart ==
    /\ t_pc = "start"
    /\ t_vals' = Normalized(t_values, t_rect)
    /\ t_rects' = <<>>
    /\ t_row' = <<>>
    /\ t_i' = 1
    /\ t_cur' = t_rect
    /\ t_horizontal' = TRUE
    /\ t_iter' = 0
    /\ t_rows' = <<>>
    /\ t_test' = <<>>
    /\ t_lay' = <<>>
    /\ t_pc' = "loop"
    /\ UNCHANGED <<t_values, t_rect, t_padding>>
    /\ UNCHANGED TreemapOthers

\* a loop iteration that takes vals[i] into the row (lines 40-43)
TreemapAccept ==
    /\ t_pc = "loop"
    /\ t_i <= Len(t_vals)
    /\ Accepts(t_vals, t_row, t_i, t_cur)
    /\ t_row' = Append(t_row, t_i)
    /\ t_i' = t_i + 1
    /\ t_iter' = t_iter + 1
    /\ t_test' = Line42(t_vals, t_row, t_i, t_cur)
    /\ UNCHANGED <<t_values, t_rect, t_padding, t_vals, t_rects, t_cur, t_horizontal,
                   t_rows, t_lay, t_pc>>
    /\ UNCHANGED TreemapOthers

\* a loop iteration that closes the row and lays it out (lines 40-42, 44-46)
TreemapCloseRow ==
    /\ t_pc = "loop"
    /\ t_i <= Len(t_vals)
    /\ ~Accepts(t_vals, t_row, t_i, t_cur)
    /\ t_rects' = t_rects \o LayoutRects(t_vals, t_row, t_cur, t_horizontal, t_padding)
    /\ t_cur' = LayoutRest(t_vals, t_row, t_cur, t_horizontal)
    /\ t_row' = <<>>
    /\ t_horizontal' = ~t_horizontal
    /\ t_iter' = t_iter + 1
    /\ t_rows' = Append(t_rows, t_row)
    /\ t_test' = Line42(t_vals, t_row, t_i, t_cur)
    /\ t_lay' = Append(t_lay, <<t_horizontal, t_cur>>)
    /\ UNCHANGED <<t_values, t_rect, t_padding, t_vals, t_i, t_pc>>
    /\ UNCHANGED TreemapOthers

\* the end of the loop: the open row is laid out and rects returned (lines 47-49)
TreemapFlush ==
    /\ t_pc = "loop"
    /\ t_i > Len(t_vals)
    /\ IF t_row # <<>>
       THEN /\ t_rects' = t_rects \o LayoutRects(t_vals, t_row, t_cur, t_horizontal, t_padding)
            /\ t_rows' = Append(t_rows, t_row)
            /\ t_lay' = Append(t_lay, <<t_horizontal, t_cur>>)
       ELSE UNCHANGED <<t_rects, t_rows, t_lay>>
    /\ t_pc' = "done"
    /\ UNCHANGED <<t_values, t_rect, t_padding, t_vals, t_row, t_i, t_cur, t_horizontal, t_iter,
                   t_test>>
    /\ UNCHANGED TreemapOthers

TreemapNext == TreemapStart \/ TreemapAccept \/ TreemapCloseRow \/ TreemapFlush

SpecTreemap == TreemapInit /\ [][TreemapNext]_vars

(* ---- claims about _squarify ---- *)

TreeIdx == 1..Len(t_rects)
TreeTotal == RSumSeq([k \in 1..Len(t_values) |-> RInt(t_values[k])])
TreeArea == RMul(t_rect[3], t_rect[4])
RectArea(r) == RMul(r.w, r.h)
Scenario == <<6, 6, 4, 3, 2, 2, 1>>
ScenarioRect == <<RInt(0), RInt(0), RInt(6), RInt(4)>>

\* C4: with padding 0 the i-th returned rectangle has area
\* value_i * (w*h) / (sum of the values), the areas sum to the container's
\* area, and squarify([6,6,4,3,2,2,1]) in (0,0,6,4) has areas [6,6,4,3,2,2,1].
C4_AreasProportional ==
    (t_pc = "done" /\ t_padding = RZero) =>
        /\ Len(t_rects) = Len(t_values)
        /\ \A k \in TreeIdx :
              RectArea(t_rects[k]) = RDiv(RMul(RInt(t_values[k]), TreeArea), TreeTotal)
        /\ RSumSeq([k \in TreeIdx |-> RectArea(t_rects[k])]) = TreeArea
        /\ (t_values = Scenario /\ t_rect = ScenarioRect) =>
              [k \in TreeIdx |-> RectArea(t_rects[k])] = [k \in 1..7 |-> RInt(Scenario[k])]

\* the scenario's result
C4_Witness ==
    /\ t_pc = "done" /\ t_padding = RZero
    /\ t_values = Scenario /\ t_rect = ScenarioRect
    /\ Len(t_rects) = 7

InteriorsMeet(a, b) ==
    /\ RLt(a.x, RAdd(b.x, b.w)) /\ RLt(b.x, RAdd(a.x, a.w))
    /\ RLt(a.y, RAdd(b.y, b.h)) /\ RLt(b.y, RAdd(a.y, a.h))

InsideContainer(r) ==
    /\ RLe(t_rect[1], r.x) /\ RLe(RAdd(r.x, r.w), RAdd(t_rect[1], t_rect[3]))
    /\ RLe(t_rect[2], r.y) /\ RLe(RAdd(r.y, r.h), RAdd(t_rect[2], t_rect[4]))

\* C5: with padding 0 the returned rectangles have pairwise disjoint
\* interiors, each lies inside the container, and together they cover it
\* (disjoint, inside, and their areas add up to the container's area).
C5_Tiling ==
    (t_pc = "done" /\ t_padding = RZero) =>
        /\ \A a, b \in TreeIdx : a # b => ~InteriorsMeet(t_rects[a], t_rects[b])
        /\ \A a \in TreeIdx :
              InsideContainer(t_rects[a]) /\ RLt(RZero, t_rects[a].w) /\ RLt(RZero, t_rects[a].h)
        /\ RSumSeq([k \in TreeIdx |-> RectArea(t_rects[k])]) = TreeArea

\* a padding-free result with a horizontal and a vertical strip in a
\* container away from the origin
C5_Witness ==
    /\ t_pc = "done" /\ t_padding = RZero /\ t_rect[1] # RZero
    /\ Len(t_rects) >= 3
    /\ \E a, b \in TreeIdx : t_rects[a].y = t_rects[b].y /\ t_rects[a].x # t_rects[b].x
    /\ \E a, b \in TreeIdx : t_rects[a].x = t_rects[b].x /\ t_rects[a].y # t_rects[b].y

\* C6: _squarify returns one rectangle per input value and the k-th
\* rectangle is the one laid out for the k-th value: before the padding was
\* taken off it had the k-th normalised value as its area.
C6_LengthAndOrder ==
    t_pc = "done" =>
        /\ Len(t_rects) = Len(t_values)
        /\ \A k \in TreeIdx :
              /\ t_rects[k].item = k
              /\ LET p2 == RMul(RInt(2), t_padding) IN
                   RMul(RAdd(t_rects[k].w, p2), RAdd(t_rects[k].h, p2)) = t_vals[k]

\* a padded result of three rows, one of them with two values
C6_Witness ==
    /\ t_pc = "done" /\ t_padding # RZero
    /\ Len(t_rects) = 4
    /\ Cardinality({t_rects[k].h : k \in TreeIdx}) >= 3
    /\ \E k \in 1..3 : t_values[k] # t_values[k + 1]

\* C7 as stated: every returned rectangle has strictly positive width and
\* height, for every padding >= 0.
C7_AsStated ==
    t_pc = "done" =>
        \A k \in TreeIdx : RLt(RZero, t_rects[k].w) /\ RLt(RZero, t_rects[k].h)

\* the positions of vals that appear in the rows laid out, with repetitions
RECURSIVE RowsFlat(_)
RowsFlat(rows) ==
    IF rows = <<>> THEN <<>> ELSE RowsFlat(SubSeq(rows, 1, Len(rows) - 1)) \o rows[Len(rows)]

\* the loop has made at most 2n iterations, every row handed to layout is
\* non-empty, no value is in two rows, and on return every value is in a row
C18_LoopBound ==
    t_pc \in {"loop", "done"} =>
        /\ t_iter <= 2 * Len(t_values)
        /\ t_iter = (t_i - 1) + (IF t_pc = "done" THEN Len(t_rows) - 1 ELSE Len(t_rows))
        /\ \A r \in 1..Len(t_rows) : t_rows[r] # <<>>
        /\ RowsFlat(t_rows) \o (IF t_pc = "done" THEN <<>> ELSE t_row)
              = [k \in 1..(t_i - 1) |-> k]
        /\ t_pc = "done" => t_i = Len(t_values) + 1

\* a step of the loop: an iteration that closes a row leaves the rejected
\* value unconsumed and the row empty, and an iteration that starts with an
\* empty row accepts the value at hand; every iteration is counted
C18_Step ==
    /\ (t_pc = "loop" /\ t_pc' = "loop" /\ Len(t_rows') > Len(t_rows)) =>
          (t_row' = <<>> /\ t_i' = t_i /\ t_i <= Len(t_values))
    /\ (t_pc = "loop" /\ t_pc' = "loop" /\ t_row = <<>>) =>
          (t_row' = <<t_i>> /\ t_i' = t_i + 1)
    /\ (t_pc = "loop" /\ t_pc' = "loop") => t_iter' = t_iter + 1

\* C18: the main loop of _squarify ends, for every sequence of n values,
\* after at most 2n iterations: an iteration that closes a row is followed
\* by one that accepts the rejected value into the new row, every row laid
\* out is non-empty, and every value ends up in exactly one row.  (Every
\* iteration raises the counter, which never exceeds 2n: the loop cannot go
\* on for ever, and it is left only through the return.)
C18_Terminates ==
    /\ []C18_LoopBound
    /\ [][C18_Step]_vars

\* a call that closed a row after every value but the last: n - 1 closing
\* iterations among 2n - 1
C18_Witness ==
    /\ t_pc = "done"
    /\ Len(t_values) >= 3
    /\ Len(t_rows) = Len(t_values)
    /\ t_iter = 2 * Len(t_values) - 1

\* the largest and the smallest value of a non-empty row, by their defining
\* property
LargestOf(rv) == CHOOSE m \in {rv[k] : k \in 1..Len(rv)} : \A k \in 1..Len(rv) : RLe(rv[k], m)
SmallestOf(rv) == CHOOSE m \in {rv[k] : k \in 1..Len(rv)} : \A k \in 1..Len(rv) : RLe(m, rv[k])
ShorterSide(cur) == IF RLe(cur[3], cur[4]) THEN cur[3] ELSE cur[4]

\* the larger of two numbers, compared through 1 where 1 lies between them
LargerOf(a, b) ==
    IF RLe(a, RInt(1)) /\ RLe(RInt(1), b) THEN b
    ELSE IF RLe(b, RInt(1)) /\ RLe(RInt(1), a) THEN a
    ELSE IF RLe(a, b) THEN b ELSE a

\* max((S^2 * max_v) / T^2, T^2 / (S^2 * min_v))
RatioAsStated(rv, T) ==
    LET S2 == RSq(RSumSeq(rv))
        a == RDiv(RMul(S2, LargestOf(rv)), RSq(T))
        b == RDiv(RSq(T), RMul(S2, SmallestOf(rv)))
    IN  LargerOf(a, b)

\* max((T^2 * max_v) / S^2, S^2 / (T^2 * min_v))
RatioOfBruls(rv, T) ==
    LET S2 == RSq(RSumSeq(rv))
        a == RDiv(RMul(RSq(T), LargestOf(rv)), S2)
        b == RDiv(S2, RMul(RSq(T), SmallestOf(rv)))
    IN  LargerOf(a, b)

\* the loop has just tested a value against a non-empty row: the row of
\* that test is the row before the iteration, which is the open row less its
\* last value after an accept and the row just laid out after a close
TestedRow ==
    IF t_row # <<>> THEN SubSeq(t_row, 1, Len(t_row) - 1) ELSE t_rows[Len(t_rows)]
TestedWith == IF t_row # <<>> THEN Append(TestedRow, t_row[Len(t_row)]) ELSE Append(TestedRow, t_i)
\* the remaining rectangle at that test
TestedIn == IF t_row # <<>> THEN t_cur ELSE t_lay[Len(t_lay)][2]

\* C21 as stated: the worst aspect ratio computed for a non-empty row with
\* sum S, largest value max_v and smallest value min_v against the shorter
\* side T equals max((S^2 * max_v) / T^2, T^2 / (S^2 * min_v)).
C21_AsStated ==
    (t_pc = "loop" /\ t_test # <<>>) =>
        /\ t_test[1] = ShorterSide(TestedIn)
        /\ t_test[3] = RatioAsStated(RowVals(t_vals, TestedRow), t_test[1])
        /\ t_test[2] = RatioAsStated(RowVals(t_vals, TestedWith), t_test[1])

\* C21 (amended): the worst aspect ratio computed for a non-empty row with
\* sum S, largest value max_v and smallest value min_v against the shorter
\* side T of the remaining rectangle equals
\* max((T^2 * max_v) / S^2, S^2 / (T^2 * min_v)), for the row and for the
\* row with the value at hand.
C21_RatioOfBruls ==
    (t_pc = "loop" /\ t_test # <<>>) =>
        /\ t_test[1] = ShorterSide(TestedIn)
        /\ t_test[3] = RatioOfBruls(RowVals(t_vals, TestedRow), t_test[1])
        /\ t_test[2] = RatioOfBruls(RowVals(t_vals, TestedWith), t_test[1])

\* a test of a row of two different values in a rectangle that is not a
\* square, where the two formulas differ
C21_Witness ==
    /\ t_pc = "loop" /\ t_test # <<>>
    /\ Len(TestedRow) >= 2
    /\ LargestOf(RowVals(t_vals, TestedRow)) # SmallestOf(RowVals(t_vals, TestedRow))
    /\ TestedIn[3] # TestedIn[4]
    /\ t_test[3] # RatioAsStated(RowVals(t_vals, TestedRow), t_test[1])

\* which side of a rectangle is the shorter one
ShorterIs(cur) ==
    IF RLt(cur[3], cur[4]) THEN "width" ELSE IF RLt(cur[4], cur[3]) THEN "height" ELSE "neither"

\* C22 as stated: whenever a row is laid out, the orientation of the strip
\* is determined by which side of the remaining rectangle is the shorter
\* one: two rows laid out in rectangles with the same shorter side have the
\* same orientation.
C22_AsStated ==
    \A a, b \in 1..Len(t_lay) :
        ShorterIs(t_lay[a][2]) = ShorterIs(t_lay[b][2]) => t_lay[a][1] = t_lay[b][1]

\* the normalized values not laid out yet: the open row and the values not
\* yet visited
NotLaidOut == RowVals(t_vals, t_row) \o SubSeq(t_vals, t_i, Len(t_vals))

\* what layout returns for the last row, on line 48
LastRest ==
    LayoutRest(t_vals, t_rows[Len(t_rows)], t_lay[Len(t_lay)][2], t_lay[Len(t_lay)][1])

\* C24: after every row that _squarify lays out, the remaining rectangle
\* has non-negative width and height and its area cur_w * cur_h equals the
\* sum of the normalized values not laid out yet (the open row plus the
\* values not yet visited); after the last row nothing is left.
C24_RestArea ==
    /\ t_pc = "loop" =>
          /\ RLe(RZero, t_cur[3]) /\ RLe(RZero, t_cur[4])
          /\ RMul(t_cur[3], t_cur[4]) = RSumSeq(NotLaidOut)
    /\ (t_pc = "done" /\ t_lay # <<>>) =>
          /\ RLe(RZero, LastRest[3]) /\ RLe(RZero, LastRest[4])
          /\ RMul(LastRest[3], LastRest[4]) = RZero

\* a horizontal and a vertical strip have been cut off, the row is empty
\* and values remain
C24_Witness ==
    /\ t_pc = "loop" /\ Len(t_lay) >= 2 /\ t_row = <<>> /\ t_i <= Len(t_vals)
    /\ t_cur[3] # t_rect[3] /\ t_cur[4] # t_rect[4]
    /\ RLt(RZero, RSumSeq(NotLaidOut))

(* ---- _squarify called outside its preconditions ---- *)

\* value lists whose sum is zero
TreeZeroSums == {<<0>>, <<0, 0>>, <<1, -1>>, <<-1, 1>>, <<1, -1, 0>>, <<2, -1, -1>>, <<-1, 2, -1>>}
\* containers with w <= 0 or h <= 0
TreeDegenerate == {<<RInt(0), RInt(0), RInt(0), RInt(1)>>,
                   <<RInt(0), RInt(0), RInt(1), RInt(0)>>,
                   <<RInt(0), RInt(0), RInt(-1), RInt(1)>>,
                   <<RInt(0), RInt(0), RInt(2), RInt(-1)>>,
                   <<RInt(1), RInt(2), RInt(-2), RInt(-3)>>}

\* the precondition of _squarify: a non-zero sum and a container of
\* positive width and height
TreePrecondition ==
    /\ RSumSeq([k \in 1..Len(t_values) |-> RInt(t_values[k])]) # RZero
    /\ RLt(RZero, t_rect[3]) /\ RLt(RZero, t_rect[4])

\* a direct call _squarify(values, x, y, w, h, padding) (line 8) with a
\* zero-sum value list, or with a degenerate container
TreemapUncheckedInit ==
    /\ \/ /\ t_values \in TreeZeroSums
          /\ t_rect \in TreeContainers
       \/ /\ t_values \in UNION {[1..k -> 1..2] : k \in 1..3}
          /\ t_rect \in TreeDegenerate
    /\ t_padding \in TreePaddings
    /\ t_vals = <<>> /\ t_rects = <<>> /\ t_row = <<>> /\ t_i = 0 /\ t_cur = <<>>
    /\ t_horizontal = TRUE /\ t_iter = 0 /\ t_rows = <<>>
    /\ t_test = <<>> /\ t_lay = <<>>
    /\ t_pc = "start"
    /\ FlowIdle /\ SankeyIdle /\ SunburstIdle /\ FunnelIdle

SpecTreemapUnchecked == TreemapUncheckedInit /\ [][TreemapNext]_vars

\* C13: called with a zero-sum value list or with a container whose w <= 0
\* or h <= 0, _squarify raises: it never returns, and so returns no
\* rectangle.
C13_AsStated == ~TreePrecondition => t_pc # "done"

-----------------------------------------------------------------------------
(* Radial partition: _layout and build (src/charts/sunburst/builder.py).   *)
(* The tree is given by u_parent (node 1 is the root, u_parent[1] = 0, and *)
(* the children of a node are the nodes naming it, in increasing order)    *)
(* and u_value.  u_inner[i] is node i's "inner" key, <<>> while the node   *)
(* has none.  The recursion is an explicit stack of frames: a "call" frame *)
(* is a call of _layout about to run, a "loop" frame the child loop of a   *)
(* call in progress.  u_alloc[i] records the <<start, span>> arguments of  *)
(* the _layout call made for node i.                                       *)

SunMaxNodes == 4
SunValues == {0, 1, 2}
NoDepth == -1
SunMaxDepths == {NoDepth, 0, 1}
SunGaps == {RInt(0), Rat(3, 2)}
SunStartDeg == 90
SunFullTurn == 360
RingThickness == Rat(18, 100)
InnerHoleFrac == Rat(38, 100)

SunNodes == 1..Len(u_parent)

\* node["children"], in order
Children(parent, node) ==
    LET C == {i \in 1..Len(parent) : parent[i] = node}
        ord[S \in SUBSET C] ==
            IF S = {} THEN <<>>
            ELSE LET m == MaxOf(S) IN Append(ord[S \ {m}], m)
    IN  ord[C]

\* total = sum(ch["value"] for ch in node["children"]) (line 19)
RECURSIVE IntSum(_)
IntSum(sq) == IF sq = <<>> THEN 0 ELSE IntSum(SubSeq(sq, 1, Len(sq) - 1)) + sq[Len(sq)]

ChildTotal(parent, value, node) ==
    LET ch == Children(parent, node) IN IntSum([k \in 1..Len(ch) |-> value[ch[k]]])

\* frac doubled
ChildFrac_Twice(v, total) == IF total > 0 THEN Rat(2 * v, total) ELSE RZero

\* frac with the whole span for every child of a zero total
ChildFrac_WholeOnZero(v, total) == IF total > 0 THEN Rat(v, total) ELSE RInt(1)

\* frac with floor division
ChildFrac_Floor(v, total) == IF total > 0 THEN RInt(v \div total) ELSE RZero

\* frac = ch["value"]/total if total > 0 else 0 (line 22)
ChildFrac(v, total) == IF total > 0 THEN Rat(v, total) ELSE RZero

\* the depth test with >= for >
DepthCut_AtLimit(depth, max_depth) == max_depth # NoDepth /\ depth >= max_depth

\* max_depth is not None and depth > max_depth (line 14)
DepthCut(depth, max_depth) == max_depth # NoDepth /\ depth > max_depth

CallFrame(node, start, span, depth) ==
    [kind |-> "call", node |-> node, start |-> start, span |-> span, depth |-> depth,
     k |-> 0, a |-> start]

SunburstInit ==
    /\ \E n \in 1..SunMaxNodes :
          /\ u_parent \in {p \in [1..n -> 0..(n - 1)] :
                              p[1] = 0 /\ \A i \in 2..n : p[i] >= 1 /\ p[i] < i}
          /\ u_value \in [1..n -> SunValues]
          /\ u_inner = [i \in 1..n |-> <<>>]
          /\ u_alloc = [i \in 1..n |-> <<>>]
    /\ u_max_depth \in SunMaxDepths
    /\ u_gap \in SunGaps
    /\ u_stack = <<>>
    /\ u_slices = <<>>
    /\ u_pc = "build"
    /\ FlowIdle /\ SankeyIdle /\ TreemapIdle /\ FunnelIdle

\* build: root["inner"] = inner_frac and the call of _layout for the root
\* (lines 42-44)
SunburstBegin ==
    /\ u_pc = "build"
    /\ u_inner' = [u_inner EXCEPT ![1] = InnerHoleFrac]
    /\ u_alloc' = [u_alloc EXCEPT ![1] = <<RInt(SunStartDeg), RInt(SunFullTurn)>>]
    /\ u_stack' = <<CallFrame(1, RInt(SunStartDeg), RInt(SunFullTurn), 0)>>
    /\ u_pc' = "layout"
    /\ UNCHANGED <<u_parent, u_value, u_max_depth, u_gap, u_slices>>
    /\ UNCHANGED SunburstOthers

\* entry of _layout: the depth test, the wedge, and the start of the child
\* loop (lines 14-20)
SunburstEnter ==
    /\ u_pc = "layout"
    /\ u_stack # <<>>
    /\ LET f == u_stack[Len(u_stack)]
           rest == SubSeq(u_stack, 1, Len(u_stack) - 1)
           inner == u_inner[f.node]
           outer == RAdd(inner, RingThickness)
           half == RDiv(u_gap, RInt(2))
       IN  /\ f.kind = "call"
           /\ IF DepthCut(f.depth, u_max_depth)
              THEN /\ u_stack' = rest
                   /\ UNCHANGED u_slices
              ELSE /\ u_slices' = Append(u_slices,
                         [node |-> f.node, inner |-> inner, outer |-> outer,
                          theta1 |-> RAdd(f.start, half),
                          theta2 |-> RSub(RAdd(f.start, f.span), half),
                          depth |-> f.depth])
                   /\ IF Children(u_parent, f.node) # <<>>
                      THEN u_stack' = Append(rest, [f EXCEPT !.kind = "loop", !.k = 1, !.a = f.start])
                      ELSE u_stack' = rest
    /\ UNCHANGED <<u_parent, u_value, u_max_depth, u_gap, u_inner, u_alloc, u_pc>>
    /\ UNCHANGED SunburstOthers

\* one iteration of `for ch in node["children"]` (lines 21-25): the call for
\* the child runs next, the loop goes on at a + span*frac after it returns
SunburstChild ==
    /\ u_pc = "layout"
    /\ u_stack # <<>>
    /\ LET f == u_stack[Len(u_stack)]
           rest == SubSeq(u_stack, 1, Len(u_stack) - 1)
           chs == Children(u_parent, f.node)
       IN  /\ f.kind = "loop"
           /\ f.k <= Len(chs)
           /\ LET ch == chs[f.k]
                  frac == ChildFrac(u_value[ch], ChildTotal(u_parent, u_value, f.node))
                  share == RMul(f.span, frac)
              IN  /\ u_inner' = [u_inner EXCEPT ![ch] = RAdd(u_inner[f.node], RingThickness)]
                  /\ u_alloc' = [u_alloc EXCEPT ![ch] = <<f.a, share>>]
                  /\ u_stack' = rest \o <<[f EXCEPT !.k = f.k + 1, !.a = RAdd(f.a, share)],
                                          CallFrame(ch, f.a, share, f.depth + 1)>>
    /\ UNCHANGED <<u_parent, u_value, u_max_depth, u_gap, u_slices, u_pc>>
    /\ UNCHANGED SunburstOthers

\* the child loop is over: _layout returns (after line 25)
SunburstReturn ==
    /\ u_pc = "layout"
    /\ u_stack # <<>>
    /\ LET f == u_stack[Len(u_stack)] IN
         /\ f.kind = "loop"
         /\ f.k > Len(Children(u_parent, f.node))
    /\ u_stack' = SubSeq(u_stack, 1, Len(u_stack) - 1)
    /\ UNCHANGED <<u_parent, u_value, u_max_depth, u_gap, u_inner, u_alloc, u_slices, u_pc>>
    /\ UNCHANGED SunburstOthers

\* the root's call has returned: the wedges are drawn (lines 46-64)
SunburstFinish ==
    /\ u_pc = "layout"
    /\ u_stack = <<>>
    /\ u_pc' = "done"
    /\ UNCHANGED <<u_parent, u_value, u_max_depth, u_gap, u_inner, u_alloc, u_stack, u_slices>>
    /\ UNCHANGED SunburstOthers

SunburstNext ==
    \/ SunburstBegin \/ SunburstEnter \/ SunburstChild \/ SunburstReturn \/ SunburstFinish

SpecSunburst == SunburstInit /\ [][SunburstNext]_vars

(* ---- claims about the radial partition ---- *)

SliceIdx == 1..Len(u_slices)
Visited(node) == \E k \in SliceIdx : u_slices[k].node = node

\* the spans allotted to the children of node, in child order
ChildSpans(node) ==
    LET ch == Children(u_parent, node) IN [k \in 1..Len(ch) |-> u_alloc[ch[k]][2]]

RECURSIVE Depth(_, _)
Depth(parent, node) == IF parent[node] = 0 THEN 0 ELSE 1 + Depth(parent, parent[node])

SlicesOf(node) == {k \in SliceIdx : u_slices[k].node = node}

\* C9: exactly one wedge for every node whose depth is at most max_depth
\* (every node when max_depth is None), none for a deeper node, a parent's
\* wedge before its children's; the wedge of a node at depth d has
\* innerR = root inner radius + d * ring thickness and
\* outerR = innerR + ring thickness, so a child's innerR is its parent's outerR.
C9_OneWedgePerNode ==
    u_pc = "done" =>
        /\ \A node \in SunNodes :
              Cardinality(SlicesOf(node)) =
                  IF u_max_depth = NoDepth \/ Depth(u_parent, node) <= u_max_depth
                  THEN 1 ELSE 0
        /\ \A k \in SliceIdx :
              LET w == u_slices[k]
                  d == Depth(u_parent, w.node)
              IN  /\ w.depth = d
                  /\ w.inner = RAdd(InnerHoleFrac, RMul(RInt(d), RingThickness))
                  /\ w.outer = RAdd(w.inner, RingThickness)
                  /\ d > 0 =>
                        \E j \in 1..(k - 1) :
                            /\ u_slices[j].node = u_parent[w.node]
                            /\ u_slices[j].outer = w.inner

\* a finished partition, depth-limited to 1, of a tree with a node at
\* depth 2 and a wedge at depth 1
C9_Witness ==
    /\ u_pc = "done" /\ u_max_depth = 1
    /\ \E node \in SunNodes : Depth(u_parent, node) = 2
    /\ \E k \in SliceIdx : u_slices[k].depth = 1

\* the visited nodes with k >= 1 children whose values sum to zero
ZeroTotalNodes ==
    {node \in SunNodes :
        /\ Visited(node)
        /\ Children(u_parent, node) # <<>>
        /\ ChildTotal(u_parent, u_value, node) = 0}

C26_AsStated == \A k \in SliceIdx : RLe(u_slices[k].theta1, u_slices[k].theta2)

-----------------------------------------------------------------------------
(* Funnel: build (src/charts/funnel/builder.py) and validate_funnel        *)
(* (src/charts/core/validators.py).  n_values are the stages' values.      *)
(* numpy divides by zero without raising: <<1, 0>> is inf, <<-1, 0>> is    *)
(* -inf and <<0, 0>> is nan.                                               *)

FunMaxStages == 3
FunMaxVal == 3
FunnelVals == (-1)..FunMaxVal
\* the stage values of the spec's scenario, and a funnel of six stages
FunnelLongInputs == {<<100, 80, 50, 20>>, <<6, 5, 4, 3, 2, 1>>}
BarHeight == Rat(12, 100)
BarGap == Rat(6, 100)
MinWidth == Rat(2, 100)

\* vals / base on float64 (line 28)
NpDiv(a, b) ==
    IF b[1] = 0
    THEN IF a[1] > 0 THEN RInf ELSE IF a[1] < 0 THEN <<-1, 0>> ELSE RNaN
    ELSE RDiv(a, b)

\* np.clip(x, lo, hi): nan stays nan
NpClip(x, lo, hi) == IF x = RNaN THEN RNaN ELSE RMin(RMax(x, lo), hi)

\* base = vals[0] if normalize else np.max(vals) (line 27)
FunnelBase(values, normalize) ==
    IF normalize THEN RInt(values[1])
    ELSE RInt(MaxOf({values[k] : k \in 1..Len(values)}))

\* the width as the share lost against the base
StageWidth_DropOff(v, base) == NpClip(RSub(RInt(1), NpDiv(RInt(v), base)), MinWidth, RInt(1))

\* one entry of widths = np.clip(vals / base, 0.02, 1.0) (line 28)
StageWidth(v, base) == NpClip(NpDiv(RInt(v), base), MinWidth, RInt(1))

FunnelInit ==
    /\ n_values \in SeqsUpTo(FunnelVals, FunMaxStages) \cup FunnelLongInputs
    /\ n_normalize \in BOOLEAN
    /\ n_widths = <<>>
    /\ n_ys = <<>>
    /\ n_pc = "validate"
    /\ FlowIdle /\ SankeyIdle /\ TreemapIdle /\ SunburstIdle

\* validate_funnel(payload) (build line 9; validators lines 80-88): stages
\* must be a non-empty list of labelled numeric values
FunnelValidate ==
    /\ n_pc = "validate"
    /\ n_pc' = IF n_values # <<>> THEN "widths" ELSE "error"
    /\ UNCHANGED <<n_values, n_normalize, n_widths, n_ys>>
    /\ UNCHANGED FunnelOthers

\* the widths (lines 26-28)
FunnelWidths ==
    /\ n_pc = "widths"
    /\ n_widths' = [k \in 1..Len(n_values) |->
                       StageWidth(n_values[k], FunnelBase(n_values, n_normalize))]
    /\ n_pc' = "positions"
    /\ UNCHANGED <<n_values, n_normalize, n_ys>>
    /\ UNCHANGED FunnelOthers

\* the vertical positions, top to bottom (lines 38-41); the bars are drawn
\* from them (lines 43-69)
FunnelPositions ==
    /\ n_pc = "positions"
    /\ LET n == Len(n_values)
           pitch == RAdd(BarHeight, BarGap)
           total_h == RAdd(RMul(RInt(n), BarHeight), RMul(RInt(n - 1), BarGap))
           top_y == RAdd(RDiv(RSub(RInt(1), total_h), RInt(2)), RMul(RInt(n - 1), pitch))
       IN  n_ys' = [k \in 1..n |-> RSub(top_y, RMul(RInt(k - 1), pitch))]
    /\ n_pc' = "done"
    /\ UNCHANGED <<n_values, n_normalize, n_widths>>
    /\ UNCHANGED FunnelOthers

FunnelNext == FunnelValidate \/ FunnelWidths \/ FunnelPositions

SpecFunnel == FunnelInit /\ [][FunnelNext]_vars

(* ---- claims about the funnel ---- *)

FunnelIdx == 1..Len(n_values)
StagesPositive == \A k \in FunnelIdx : n_values[k] > 0
StagesNonIncreasing == \A k \in 1..(Len(n_values) - 1) : n_values[k] >= n_values[k + 1]

\* C10: if the stage values are positive and non-increasing in stage order,
\* the widths are non-increasing in stage order, under either base.
C10_WidthsMonotone ==
    (n_widths # <<>> /\ StagesPositive /\ StagesNonIncreasing) =>
        \A k \in 1..(Len(n_widths) - 1) : RLe(n_widths[k + 1], n_widths[k])

\* widths of three positive, strictly decreasing stages under the maximum
\* as base, the last one narrower than the first
C10_Witness ==
    /\ n_pc = "done" /\ ~n_normalize
    /\ Len(n_widths) >= 3 /\ StagesPositive
    /\ \A k \in 1..(Len(n_values) - 1) : n_values[k] > n_values[k + 1]
    /\ RLt(n_widths[3], n_widths[1])

\* the spec's scenario: stages 100, 80, 50, 20 against base 100
FunnelScenario == <<100, 80, 50, 20>>

\* C11: every stage width is min(1.0, max(0.02, value / base)), a number of
\* [0.02, 1.0], with base the first value under normalize and the maximum
\* otherwise; the scenario's widths are 1, 8/10, 5/10, 2/10.
C11_AsStated ==
    n_widths # <<>> =>
        LET base == FunnelBase(n_values, n_normalize) IN
          /\ \A k \in FunnelIdx :
                /\ n_widths[k] # RNaN
                /\ RLe(MinWidth, n_widths[k]) /\ RLe(n_widths[k], RInt(1))
                /\ base # RZero =>
                      n_widths[k] = RMin(RInt(1), RMax(MinWidth, RDiv(RInt(n_values[k]), base)))
          /\ n_values = FunnelScenario =>
                n_widths = <<RInt(1), Rat(8, 10), Rat(5, 10), Rat(2, 10)>>


\* C29 as stated (for positive stage values): every stage bar lies inside
\* the unit canvas for every number of stages with bar height 0.12 and gap
\* 0.06: 0 <= 0.5 - w/2 and 0.5 + w/2 <= 1, 0 <= y and y + bar height <= 1,
\* and the block of bars has equal free space above and below.
C29_AsStated ==
    (n_pc = "done" /\ StagesPositive) =>
        /\ \A k \in FunnelIdx :
              /\ RLe(RZero, RSub(Rat(1, 2), RDiv(n_widths[k], RInt(2))))
              /\ RLe(RAdd(Rat(1, 2), RDiv(n_widths[k], RInt(2))), RInt(1))
              /\ RLe(RZero, n_ys[k])
              /\ RLe(RAdd(n_ys[k], BarHeight), RInt(1))
        /\ n_ys[Len(n_ys)] = RSub(RInt(1), RAdd(n_ys[1], BarHeight))

(* ---- claims about the payloads of all five components ---- *)

\* the payload a call is given: the graph's nodes, edges and lane
\* overrides, the Sankey nodes (with their keys) and links, the treemap
\* values, the tree's nodes with their keys, and the funnel's stages
InputPayload ==
    <<f_nodes, f_edges, f_override, s_nodes, s_links, t_values,
      u_parent, u_value, u_inner, n_values>>

\* C14: a layout call leaves its input unchanged: no step of the radial
\* partition, the Sankey layout, the graph auto-layout, the funnel builder
\* or squarify changes a field or a value of a node, link, edge, stage or
\* item of the payload.
C14_AsStated == [][InputPayload' = InputPayload]_vars


\* C15: validation rejects a payload that holds a value <= 0 where a
\* positive one is required: the funnel builder gets past validate_funnel
\* only with every stage value positive, and the Sankey builder past
\* validate_sankey only with every link value positive, so no layout step
\* runs on a non-positive value.
C15_AsStated ==
    /\ n_pc \in {"widths", "positions", "done"} => StagesPositive
    /\ s_pc \in {"sums", "scale", "layout", "links", "done"} => AllLinksPositive

=============================================================================
